---- MODULE Spec2Model ----
(***************************************************************************)
(* MultipartWriter (core/src/raw/oio/write/multipart_write.rs): a poll     *)
(* driven state machine that turns write / close / abort calls into        *)
(* write_once, initiate_part, write_part, complete_part and abort_part     *)
(* calls on a backend.  One action of the model is one iteration of the    *)
(* `loop` of poll_write / poll_close / poll_abort (from its `match` to the *)
(* next `continue`, `return` or suspension), one resolution of a pending   *)
(* backend call, or one call issued by the caller.                         *)
(***************************************************************************)
EXTENDS Integers, Sequences, FiniteSets, TLC

\* ------------------------------------------------------------------ bounds
\* largest `concurrent` handed to MultipartWriter::new
MaxConcurrent == 2
\* calls (write / close / abort) one caller issues in the free specification
MaxCalls == 4
\* write calls that are not retries in the write-then-close scenario
MaxWrites == 3
\* backend calls that may fail
MaxFail == 2

\* the buffers handed to write: sizes 0, 1 and 2, contents pairwise distinct
WriteBufs == { <<>>, <<1>>, <<2, 3>> }
\* the upload ids initiate_part may return
UploadIds == { "u1", "u2" }

\* Option<T> is a sequence of length at most one
None == <<>>
Some(x) == <<x>>
Unwrap(o) == o[1]

VARIABLES
    concurrent,        \* capacity of `futures`: 1.max(concurrent)
    state,             \* State: Idle | Init(fut) | Close(fut) | Abort(fut)
    upload_id,         \* Option<Arc<String>>
    parts,             \* Vec<MultipartPart>
    cache,             \* Option<ChunkedBytes>
    futures,           \* ConcurrentFutures<WritePartFuture>, head first
    next_part_number,  \* usize
    call,              \* the caller's current or last call and its result
    ncalls,            \* calls issued so far
    nwrites,           \* write calls that returned Ok
    total_size,        \* bytes of the write calls that returned Ok
    backend,           \* what the backend has seen (tests::TestWrite + calls)
    failures,          \* backend calls that failed so far
    panicked           \* "no", or the panic that ended the program

vars == << concurrent, state, upload_id, parts, cache, futures,
           next_part_number, call, ncalls, nwrites, total_size, backend,
           failures, panicked >>

writer == << state, upload_id, parts, cache, futures, next_part_number >>

\* ------------------------------------------------------- State and futures
NoArgs == [upload_id |-> "", parts |-> <<>>, size |-> 0, body |-> None]

Idle == [kind |-> "Idle", op |-> "none", args |-> NoArgs, res |-> "none",
         val |-> ""]

\* a boxed future of one backend call, not yet resolved
Fut(kind, op, args) ==
    [kind |-> kind, op |-> op, args |-> args, res |-> "pending", val |-> ""]

\* AsyncBody::ChunkedBytes(bytes) | AsyncBody::Empty
ChunkedBody(bytes) == Some(bytes)
EmptyBody == None

\* ChunkedBytes::len
ChunkLen(bytes) == Len(bytes)

\* WritePartFuture::new: the task is bound to (upload_id, part_number, bytes)
\* and calls write_part with size = bytes.len() and body = bytes
WritePartFutureNew(id, part_number, bytes) ==
    [upload_id |-> id, part_number |-> part_number, bytes |-> bytes,
     size |-> ChunkLen(bytes), res |-> "pending"]

\* MultipartPart as the backend of the tests returns it
MultipartPart(part_number) == [part_number |-> part_number, etag |-> "etag"]

PartNumbers(ps) == [i \in 1..Len(ps) |-> ps[i].part_number]

\* 0, 1, ..., n-1
Iota(n) == [i \in 1..n |-> i - 1]

\* --------------------------------------------- ConcurrentFutures (the queue)
Capacity == IF concurrent > 1 THEN concurrent ELSE 1

has_remaining(q) == Len(q) < Capacity
is_empty(q) == Len(q) = 0
push_back(q, t) == Append(q, t)
push_front(q, t) == <<t>> \o q
clear(q) == <<>>
\* poll_next looks at the head task only: Pending while it runs
HeadReady(q) == Len(q) > 0 /\ q[1].res # "pending"
pop_front(q) == Tail(q)

\* ---------------------------------------------------------------- fill_cache
\* fill_cache_chunk as a slip would write it: only the first byte is copied
fill_cache_chunk_first(bs) == SubSeq(bs, 1, IF Len(bs) > 1 THEN 1 ELSE Len(bs))

\* the chunk built from the caller's buffer: all `remaining` bytes are copied
fill_cache_chunk(bs) == SubSeq(bs, 1, Len(bs))
fill_cache_size(bs) == Len(bs)

\* ------------------------------------------------------------------- Init
NoCall == [op |-> "none", bs |-> <<>>, status |-> "ok"]

Backend0 ==
    [length |-> 0, part_numbers |-> <<>>,
     write_once |-> 0, initiate_part |-> 0, write_part |-> 0,
     complete_part |-> 0, abort_part |-> 0, finished |-> 0,
     last_once |-> NoArgs, last_complete |-> NoArgs]

Init ==
    /\ concurrent \in 0..MaxConcurrent
    /\ state = Idle
    /\ upload_id = None
    /\ parts = <<>>
    /\ cache = None
    /\ futures = <<>>
    /\ next_part_number = 0
    /\ call = NoCall
    /\ ncalls = 0
    /\ nwrites = 0
    /\ total_size = 0
    /\ backend = Backend0
    /\ failures = 0
    /\ panicked = "no"

\* ----------------------------------------------------------- call plumbing
Running(op) == panicked = "no" /\ call.op = op /\ call.status = "active"

Return(status) == call' = [call EXCEPT !.status = status]

Panic(why) ==
    /\ panicked' = why
    /\ call' = [call EXCEPT !.status = "panic"]

\* a write call returned Ok(size)
WriteOk(size) ==
    /\ Return("ok")
    /\ nwrites' = nwrites + 1
    /\ total_size' = total_size + size

NoBackend == UNCHANGED << backend, failures >>
NoCount == UNCHANGED << ncalls, nwrites, total_size >>

\* --------------------------------------------------------------- the caller
\* write(bs), close(), abort(): a call starts when no call is being driven
StartCall(op, bs) ==
    /\ panicked = "no"
    /\ call.status # "active"
    /\ call' = [op |-> op, bs |-> bs, status |-> "active"]
    /\ ncalls' = ncalls + 1
    /\ UNCHANGED << concurrent, writer, nwrites, total_size, backend,
                    failures, panicked >>

CallWrite == \E bs \in WriteBufs : ncalls < MaxCalls /\ StartCall("write", bs)
CallClose == ncalls < MaxCalls /\ StartCall("close", <<>>)
CallAbort == ncalls < MaxCalls /\ StartCall("abort", <<>>)

\* ---------------------------------------------------------------- poll_write
\* l.233-238: the buffered chunk becomes the task of the next part number
Dispatch(q, id, part_number, chunk) ==
    push_back(q, WritePartFutureNew(id, part_number, chunk))

\* Resubmit as a slip would write it: the retry goes to the tail
ResubmitAtTail(q, id, t) ==
    push_back(q, WritePartFutureNew(id, t.part_number, t.bytes))

\* Resubmit as a slip would write it: the retry takes a fresh part number
ResubmitRenumbered(q, id, t) ==
    push_front(q, WritePartFutureNew(id, next_part_number, t.bytes))

\* l.249-254 and l.327-332: the failed head task t, already taken from the
\* queue q, is submitted again with its part number and its bytes
Resubmit(q, id, t) ==
    push_front(q, WritePartFutureNew(id, t.part_number, t.bytes))

\* WriteHasRoom as a slip would write it: the capacity is not looked at
WriteHasRoomAlways == TRUE

\* l.228: the queue has room for the buffered chunk
WriteHasRoom == has_remaining(futures)

\* WriteDispatch as a slip would write it: the new bytes are not buffered
WriteDispatchNoRefill ==
    /\ Running("write") /\ state.kind = "Idle"
    /\ upload_id # None /\ WriteHasRoom
    /\ cache # None
    /\ futures' = Dispatch(futures, Unwrap(upload_id), next_part_number,
                           Unwrap(cache))
    /\ next_part_number' = next_part_number + 1
    /\ cache' = None
    /\ WriteOk(fill_cache_size(call.bs))
    /\ ncalls' = ncalls
    /\ NoBackend
    /\ UNCHANGED << concurrent, state, upload_id, parts, panicked >>

\* l.228-240: session, free slot: dispatch the chunk, buffer the new bytes
WriteDispatch ==
    /\ Running("write") /\ state.kind = "Idle"
    /\ upload_id # None /\ WriteHasRoom
    /\ cache # None
    /\ futures' = Dispatch(futures, Unwrap(upload_id), next_part_number,
                           Unwrap(cache))
    /\ next_part_number' = next_part_number + 1
    /\ cache' = Some(fill_cache_chunk(call.bs))
    /\ WriteOk(fill_cache_size(call.bs))
    /\ ncalls' = ncalls
    /\ NoBackend
    /\ UNCHANGED << concurrent, state, upload_id, parts, panicked >>

\* l.229: cache.take().expect("pending write must exist") on an empty slot
WriteNoPending ==
    /\ Running("write") /\ state.kind = "Idle"
    /\ upload_id # None /\ WriteHasRoom
    /\ cache = None
    /\ Panic("pending write must exist")
    /\ NoBackend /\ NoCount
    /\ UNCHANGED << concurrent, writer >>

\* l.243-247: queue full, the head task succeeded: take it, append its part
WritePartOk ==
    /\ Running("write") /\ state.kind = "Idle"
    /\ upload_id # None /\ ~WriteHasRoom
    /\ HeadReady(futures) /\ futures[1].res = "ok"
    /\ parts' = Append(parts, MultipartPart(futures[1].part_number))
    /\ futures' = pop_front(futures)
    /\ NoBackend /\ NoCount
    /\ UNCHANGED << concurrent, state, upload_id, cache, next_part_number,
                    call, panicked >>

\* WritePartErr as a slip would write it: the failed task is not queued again
WritePartErrDropsTask ==
    /\ Running("write") /\ state.kind = "Idle"
    /\ upload_id # None /\ ~WriteHasRoom
    /\ HeadReady(futures) /\ futures[1].res = "err"
    /\ futures' = pop_front(futures)
    /\ Return("err")
    /\ NoBackend /\ NoCount
    /\ UNCHANGED << concurrent, state, upload_id, parts, cache,
                    next_part_number, panicked >>

\* l.243-256: queue full, the head task failed: resubmit it, return the error
WritePartErr ==
    /\ Running("write") /\ state.kind = "Idle"
    /\ upload_id # None /\ ~WriteHasRoom
    /\ HeadReady(futures) /\ futures[1].res = "err"
    /\ futures' = Resubmit(pop_front(futures), Unwrap(upload_id), futures[1])
    /\ Return("err")
    /\ NoBackend /\ NoCount
    /\ UNCHANGED << concurrent, state, upload_id, parts, cache,
                    next_part_number, panicked >>

\* l.262-265: no session, empty slot: the first write is only buffered
WriteFirst ==
    /\ Running("write") /\ state.kind = "Idle"
    /\ upload_id = None /\ cache = None
    /\ cache' = Some(fill_cache_chunk(call.bs))
    /\ WriteOk(fill_cache_size(call.bs))
    /\ ncalls' = ncalls
    /\ NoBackend
    /\ UNCHANGED << concurrent, state, upload_id, parts, futures,
                    next_part_number, panicked >>

\* l.267-269 then l.274: no session, slot occupied: initiate_part is called
WriteInit ==
    /\ Running("write") /\ state.kind = "Idle"
    /\ upload_id = None /\ cache # None
    /\ state' = Fut("Init", "initiate_part", NoArgs)
    /\ backend' = [backend EXCEPT !.initiate_part = @ + 1]
    /\ NoCount
    /\ UNCHANGED << concurrent, upload_id, parts, cache, futures,
                    next_part_number, call, failures, panicked >>

\* l.276: the state after initiate_part returned Ok
StateAfterInitOk == Idle
\* l.275: `upload_id?` returns the error; the state is not assigned
StateAfterInitErr == [state EXCEPT !.res = "done"]

\* WriteInitOk as a slip would write it: the upload id is not stored
WriteInitOkForgetsSession ==
    /\ Running("write") /\ state.kind = "Init" /\ state.res = "ok"
    /\ state' = StateAfterInitOk
    /\ NoBackend /\ NoCount
    /\ UNCHANGED << concurrent, upload_id, parts, cache, futures,
                    next_part_number, call, panicked >>

\* l.274-276: initiate_part returned Ok: the session exists, back to Idle
WriteInitOk ==
    /\ Running("write") /\ state.kind = "Init" /\ state.res = "ok"
    /\ upload_id' = Some(state.val)
    /\ state' = StateAfterInitOk
    /\ NoBackend /\ NoCount
    /\ UNCHANGED << concurrent, parts, cache, futures, next_part_number,
                    call, panicked >>

\* l.274-275: initiate_part returned Err: write returns it
WriteInitErr ==
    /\ Running("write") /\ state.kind = "Init" /\ state.res = "err"
    /\ state' = StateAfterInitErr
    /\ Return("err")
    /\ NoBackend /\ NoCount
    /\ UNCHANGED << concurrent, upload_id, parts, cache, futures,
                    next_part_number, panicked >>

\* l.274: the future in State::Init has already returned: polling an async
\* block again panics
WriteInitResumed ==
    /\ Running("write") /\ state.kind = "Init" /\ state.res = "done"
    /\ Panic("async block resumed after completion")
    /\ NoBackend /\ NoCount
    /\ UNCHANGED << concurrent, writer >>

\* l.278-283: unreachable!() in poll_write
WriteUnreachable ==
    /\ Running("write") /\ state.kind \in {"Close", "Abort"}
    /\ Panic("unreachable")
    /\ NoBackend /\ NoCount
    /\ UNCHANGED << concurrent, writer >>

poll_write ==
    \/ WriteDispatch \/ WriteNoPending \/ WritePartOk \/ WritePartErr
    \/ WriteFirst \/ WriteInit \/ WriteInitOk \/ WriteInitErr
    \/ WriteInitResumed \/ WriteUnreachable

\* ---------------------------------------------------------------- poll_close
\* l.295: nothing queued and nothing buffered: the upload can be completed
CloseCanComplete == is_empty(futures) /\ cache = None

\* l.296-302: complete_part is called with the session and a copy of parts
CompleteArgs == [NoArgs EXCEPT !.upload_id = Unwrap(upload_id), !.parts = parts]

\* OnceArgs as a slip would write it: the buffered chunk is not looked at
OnceArgsEmpty == [NoArgs EXCEPT !.size = 0, !.body = EmptyBody]

\* OnceArgs as a slip would write it: no chunk is sent as an empty chunk
OnceArgsNoneAsChunk ==
    IF cache # None
    THEN [NoArgs EXCEPT !.size = ChunkLen(Unwrap(cache)),
                        !.body = ChunkedBody(Unwrap(cache))]
    ELSE [NoArgs EXCEPT !.size = 0, !.body = ChunkedBody(<<>>)]

\* l.340-343: write_once gets the buffered chunk, or nothing
OnceArgs ==
    IF cache # None
    THEN [NoArgs EXCEPT !.size = ChunkLen(Unwrap(cache)),
                        !.body = ChunkedBody(Unwrap(cache))]
    ELSE [NoArgs EXCEPT !.size = 0, !.body = EmptyBody]

\* l.295-303 then l.352: complete_part is called
CloseComplete ==
    /\ Running("close") /\ state.kind = "Idle"
    /\ upload_id # None /\ CloseCanComplete
    /\ state' = Fut("Close", "complete_part", CompleteArgs)
    /\ backend' = [backend EXCEPT !.complete_part = @ + 1,
                                  !.last_complete = CompleteArgs]
    /\ NoCount
    /\ UNCHANGED << concurrent, upload_id, parts, cache, futures,
                    next_part_number, call, failures, panicked >>

\* l.306-308: the buffered chunk is dispatched as the final task
CloseHasFinal == has_remaining(futures) /\ cache # None

\* l.306-319: the queue after the final task, if any, was pushed
QueueAfterFinal ==
    IF CloseHasFinal
    THEN Dispatch(futures, Unwrap(upload_id), next_part_number, Unwrap(cache))
    ELSE futures
NumberAfterFinal ==
    IF CloseHasFinal THEN next_part_number + 1 ELSE next_part_number
CacheAfterFinal == IF CloseHasFinal THEN None ELSE cache

CloseDraining ==
    /\ Running("close") /\ state.kind = "Idle"
    /\ upload_id # None /\ ~CloseCanComplete

\* l.306-321: the final task is pushed and the head task is still running
ClosePushFinal ==
    /\ CloseDraining /\ CloseHasFinal
    /\ ~HeadReady(QueueAfterFinal)
    /\ futures' = QueueAfterFinal
    /\ next_part_number' = NumberAfterFinal
    /\ cache' = CacheAfterFinal
    /\ NoBackend /\ NoCount
    /\ UNCHANGED << concurrent, state, upload_id, parts, call, panicked >>

\* l.306-325: the head task succeeded: take it, append its part
ClosePartOk ==
    /\ CloseDraining
    /\ HeadReady(QueueAfterFinal) /\ QueueAfterFinal[1].res = "ok"
    /\ parts' = Append(parts, MultipartPart(QueueAfterFinal[1].part_number))
    /\ futures' = pop_front(QueueAfterFinal)
    /\ next_part_number' = NumberAfterFinal
    /\ cache' = CacheAfterFinal
    /\ NoBackend /\ NoCount
    /\ UNCHANGED << concurrent, state, upload_id, call, panicked >>

\* ClosePartErr as a slip would write it: the failed task is not queued again
ClosePartErrDropsTask ==
    /\ CloseDraining
    /\ HeadReady(QueueAfterFinal) /\ QueueAfterFinal[1].res = "err"
    /\ futures' = pop_front(QueueAfterFinal)
    /\ next_part_number' = NumberAfterFinal
    /\ cache' = CacheAfterFinal
    /\ Return("err")
    /\ NoBackend /\ NoCount
    /\ UNCHANGED << concurrent, state, upload_id, parts, panicked >>

\* l.306-333: the head task failed: resubmit it, return the error
ClosePartErr ==
    /\ CloseDraining
    /\ HeadReady(QueueAfterFinal) /\ QueueAfterFinal[1].res = "err"
    /\ futures' = Resubmit(pop_front(QueueAfterFinal), Unwrap(upload_id),
                           QueueAfterFinal[1])
    /\ next_part_number' = NumberAfterFinal
    /\ cache' = CacheAfterFinal
    /\ Return("err")
    /\ NoBackend /\ NoCount
    /\ UNCHANGED << concurrent, state, upload_id, parts, panicked >>

\* l.338-348 then l.352: no session: write_once is called
CloseOnce ==
    /\ Running("close") /\ state.kind = "Idle"
    /\ upload_id = None
    /\ state' = Fut("Close", "write_once", OnceArgs)
    /\ backend' = [backend EXCEPT !.write_once = @ + 1,
                                  !.last_once = OnceArgs]
    /\ NoCount
    /\ UNCHANGED << concurrent, upload_id, parts, cache, futures,
                    next_part_number, call, failures, panicked >>

\* l.352-358: the call of State::Close returned Ok
CloseFutOk ==
    /\ Running("close") /\ state.kind = "Close" /\ state.res = "ok"
    /\ state' = Idle
    /\ cache' = None
    /\ Return("ok")
    /\ NoBackend /\ NoCount
    /\ UNCHANGED << concurrent, upload_id, parts, futures, next_part_number,
                    panicked >>

\* CloseFutErr as a slip would write it: the cache is cleared before `res?`
CloseFutErrClearsCache ==
    /\ Running("close") /\ state.kind = "Close" /\ state.res = "err"
    /\ state' = Idle
    /\ cache' = None
    /\ Return("err")
    /\ NoBackend /\ NoCount
    /\ UNCHANGED << concurrent, upload_id, parts, futures, next_part_number,
                    panicked >>

\* CloseFutErr as a slip would write it: the parts are cleared with the state
CloseFutErrClearsParts ==
    /\ Running("close") /\ state.kind = "Close" /\ state.res = "err"
    /\ state' = Idle
    /\ parts' = <<>>
    /\ Return("err")
    /\ NoBackend /\ NoCount
    /\ UNCHANGED << concurrent, upload_id, cache, futures, next_part_number,
                    panicked >>

\* l.352-355: the call of State::Close returned Err
CloseFutErr ==
    /\ Running("close") /\ state.kind = "Close" /\ state.res = "err"
    /\ state' = Idle
    /\ Return("err")
    /\ NoBackend /\ NoCount
    /\ UNCHANGED << concurrent, upload_id, parts, cache, futures,
                    next_part_number, panicked >>

\* l.360-365: unreachable!() in poll_close
CloseUnreachable ==
    /\ Running("close") /\ state.kind \in {"Init", "Abort"}
    /\ Panic("unreachable")
    /\ NoBackend /\ NoCount
    /\ UNCHANGED << concurrent, writer >>

poll_close ==
    \/ CloseComplete \/ ClosePushFinal \/ ClosePartOk \/ ClosePartErr
    \/ CloseOnce \/ CloseFutOk \/ CloseFutErr \/ CloseUnreachable

\* ---------------------------------------------------------------- poll_abort
\* QueueAfterAbort as a slip would write it: the queue is left as it is
QueueAfterAbortKept == futures

\* l.377: the queue after abort looked at it
QueueAfterAbort == clear(futures)

\* l.375-382 then l.389: session: the queue is cleared, abort_part is called
AbortStart ==
    /\ Running("abort") /\ state.kind = "Idle"
    /\ upload_id # None
    /\ futures' = QueueAfterAbort
    /\ state' = Fut("Abort", "abort_part",
                    [NoArgs EXCEPT !.upload_id = Unwrap(upload_id)])
    /\ backend' = [backend EXCEPT !.abort_part = @ + 1]
    /\ NoCount
    /\ UNCHANGED << concurrent, upload_id, parts, cache, next_part_number,
                    call, failures, panicked >>

\* AbortNoSession as a slip would write it: the buffered chunk is dropped
AbortNoSessionClearsCache ==
    /\ Running("abort") /\ state.kind = "Idle"
    /\ upload_id = None
    /\ cache' = None
    /\ Return("ok")
    /\ NoBackend /\ NoCount
    /\ UNCHANGED << concurrent, state, upload_id, parts, futures,
                    next_part_number, panicked >>

\* l.383-385: no session: Ok(())
AbortNoSession ==
    /\ Running("abort") /\ state.kind = "Idle"
    /\ upload_id = None
    /\ Return("ok")
    /\ NoBackend /\ NoCount
    /\ UNCHANGED << concurrent, writer, panicked >>

\* l.388-391: abort_part returned: back to Idle, its result is returned
AbortFutDone ==
    /\ Running("abort") /\ state.kind = "Abort"
    /\ state.res \in {"ok", "err"}
    /\ state' = Idle
    /\ Return(state.res)
    /\ NoBackend /\ NoCount
    /\ UNCHANGED << concurrent, upload_id, parts, cache, futures,
                    next_part_number, panicked >>

\* l.393-398: unreachable!() in poll_abort
AbortUnreachable ==
    /\ Running("abort") /\ state.kind \in {"Init", "Close"}
    /\ Panic("unreachable")
    /\ NoBackend /\ NoCount
    /\ UNCHANGED << concurrent, writer >>

poll_abort ==
    \/ AbortStart \/ AbortNoSession \/ AbortFutDone \/ AbortUnreachable

\* ------------------------------------------------------------------ backend
\* a backend call may fail (Result::Err); the model bounds how many do
MayFail == failures < MaxFail

\* tests::TestWrite::write_part (l.443-465) on task t: Ok records the part
\* number and adds the size, Err (l.454-456) changes nothing
WritePartOkEffect(b, t) ==
    [b EXCEPT !.write_part = @ + 1,
              !.part_numbers = Append(@, t.part_number),
              !.length = @ + t.size]
WritePartErrEffect(b, t) == [b EXCEPT !.write_part = @ + 1]

\* tests::TestWrite::write_once (l.433-436)
WriteOnceEffect(b, args) == [b EXCEPT !.length = @ + args.size]

\* write_once, complete_part or abort_part of the future st returns Ok;
\* `finished` counts the write_once and complete_part calls that did
CallOkEffect(b, st) ==
    IF st.op = "write_once"
    THEN [WriteOnceEffect(b, st.args) EXCEPT !.finished = @ + 1]
    ELSE IF st.op = "complete_part"
         THEN [b EXCEPT !.finished = @ + 1]
         ELSE b

\* a queued task resolves, in any order (all queued tasks run concurrently)
BackendWritePartOk ==
    \E i \in 1..Len(futures) :
        /\ panicked = "no"
        /\ futures[i].res = "pending"
        /\ futures' = [futures EXCEPT ![i].res = "ok"]
        /\ backend' = WritePartOkEffect(backend, futures[i])
        /\ NoCount
        /\ UNCHANGED << concurrent, state, upload_id, parts, cache,
                        next_part_number, call, failures, panicked >>

BackendWritePartErr ==
    \E i \in 1..Len(futures) :
        /\ panicked = "no" /\ MayFail
        /\ futures[i].res = "pending"
        /\ futures' = [futures EXCEPT ![i].res = "err"]
        /\ backend' = WritePartErrEffect(backend, futures[i])
        /\ failures' = failures + 1
        /\ NoCount
        /\ UNCHANGED << concurrent, state, upload_id, parts, cache,
                        next_part_number, call, panicked >>

\* initiate_part (l.438-441) returns the upload id
BackendInitiateOk ==
    \E id \in UploadIds :
        /\ panicked = "no"
        /\ state.kind = "Init" /\ state.res = "pending"
        /\ state' = [state EXCEPT !.res = "ok", !.val = id]
        /\ NoBackend /\ NoCount
        /\ UNCHANGED << concurrent, upload_id, parts, cache, futures,
                        next_part_number, call, panicked >>

\* write_once (l.433-436), complete_part (l.467-473), abort_part (l.475-480)
BackendCallOk ==
    /\ panicked = "no"
    /\ state.kind \in {"Close", "Abort"} /\ state.res = "pending"
    /\ state' = [state EXCEPT !.res = "ok"]
    /\ backend' = CallOkEffect(backend, state)
    /\ NoCount
    /\ UNCHANGED << concurrent, upload_id, parts, cache, futures,
                    next_part_number, call, failures, panicked >>

\* initiate_part, write_once, complete_part or abort_part returns Err
BackendCallErr ==
    /\ panicked = "no" /\ MayFail
    /\ state.kind \in {"Init", "Close", "Abort"} /\ state.res = "pending"
    /\ state' = [state EXCEPT !.res = "err"]
    /\ failures' = failures + 1
    /\ NoCount
    /\ UNCHANGED << concurrent, upload_id, parts, cache, futures,
                    next_part_number, call, backend, panicked >>

Backend ==
    \/ BackendWritePartOk \/ BackendWritePartErr
    \/ BackendInitiateOk \/ BackendCallOk \/ BackendCallErr

\* ------------------------------------------------------ suspension and drop
\* the poll of the running call returns Poll::Pending (a `ready!` l.243,
\* l.274, l.321, l.352, l.389 on something that has not resolved)
Suspended ==
    /\ panicked = "no" /\ call.status = "active"
    /\ \/ call.op = "write" /\ state.kind = "Init" /\ state.res = "pending"
       \/ call.op = "close" /\ state.kind = "Close" /\ state.res = "pending"
       \/ call.op = "abort" /\ state.kind = "Abort" /\ state.res = "pending"
       \/ /\ call.op = "write" /\ state.kind = "Idle" /\ upload_id # None
          /\ ~WriteHasRoom /\ ~HeadReady(futures)
       \/ /\ call.op = "close" /\ state.kind = "Idle" /\ upload_id # None
          /\ ~CloseCanComplete /\ ~CloseHasFinal /\ ~HeadReady(futures)

\* the caller drops the future of a suspended call (the writer keeps the
\* state the last poll left)
DropCall ==
    /\ Suspended
    /\ Return("dropped")
    /\ NoBackend /\ NoCount
    /\ UNCHANGED << concurrent, writer, panicked >>

\* -------------------------------------------------------- the test's caller
\* test_multipart_upload_writer_with_concurrent_errors (l.490-510): writes,
\* each repeated with the same bytes until Ok, then close repeated until Ok
SeqWrite ==
    /\ call.status = "ok" /\ call.op \in {"none", "write"}
    /\ nwrites < MaxWrites
    /\ \E bs \in WriteBufs : StartCall("write", bs)

SeqRetry ==
    /\ call.status = "err"
    /\ StartCall(call.op, call.bs)

SeqClose ==
    /\ call.status = "ok" /\ call.op \in {"none", "write"}
    /\ StartCall("close", <<>>)

\* ----------------------------------------------------------- specifications
\* any caller: any call after any call, suspended calls may be dropped
Next ==
    \/ CallWrite \/ CallClose \/ CallAbort \/ DropCall
    \/ poll_write \/ poll_close \/ poll_abort
    \/ Backend

Spec == Init /\ [][Next]_vars

\* the caller of the test: N writes then close, every failed call repeated
NextSeq ==
    \/ SeqWrite \/ SeqRetry \/ SeqClose
    \/ WriteDispatch \/ WritePartOk \/ WritePartErr
    \/ WriteFirst \/ WriteInit \/ WriteInitOk \/ WriteInitErr
    \/ WriteInitResumed
    \/ CloseComplete \/ ClosePushFinal \/ ClosePartOk \/ ClosePartErr
    \/ CloseOnce \/ CloseFutOk \/ CloseFutErr
    \/ Backend

SpecSeq == Init /\ [][NextSeq]_vars

\* a caller that only writes: any buffer after any buffer, a failed or
\* dropped write followed by any write; no close, no abort
NextWrite ==
    \/ CallWrite \/ DropCall
    \/ WriteDispatch \/ WritePartOk \/ WritePartErr
    \/ WriteFirst \/ WriteInit \/ WriteInitOk \/ WriteInitErr
    \/ WriteInitResumed
    \/ BackendWritePartOk \/ BackendWritePartErr
    \/ BackendInitiateOk \/ BackendCallErr

SpecWrite == Init /\ [][NextWrite]_vars

\* =================================================================== claims
\* complete_part has been called at least once
CompleteCalled == backend.complete_part > 0

\* the running or last call is `op` and it returned `status`
Returned(op, status) == call.op = op /\ call.status = status

\* C1: in the write-then-close scenario (N writes, then close, every failed
\* call repeated), the parts handed to complete_part are the parts numbered
\* 0, 1, ..., N-1 in this order, whatever the capacity and whatever the order
\* in which the queued tasks resolve.
C1_PartsInOrder ==
    CompleteCalled =>
        PartNumbers(backend.last_complete.parts) = Iota(nwrites)

\* C1 witness: three writes, capacity above one, a failed backend call, the
\* backend saw part 1 succeed first, and close returned Ok after complete_part
C1_Witness ==
    /\ Returned("close", "ok") /\ CompleteCalled
    /\ nwrites = 3 /\ Capacity > 1 /\ failures > 0
    /\ Len(backend.part_numbers) = 3 /\ backend.part_numbers[1] = 1

\* C2: byte conservation: once close has returned Ok in the write-then-close
\* scenario, the bytes of the successful write_part and write_once calls sum
\* to the bytes of the write calls that returned Ok.
C2_ByteConservation ==
    Returned("close", "ok") => backend.length = total_size

\* C2 witness: a multipart upload of at least three bytes closed with Ok,
\* after a write_part failed and was repeated
C2_Witness ==
    /\ Returned("close", "ok") /\ upload_id # None
    /\ total_size >= 3
    /\ backend.write_part > Len(backend.part_numbers)

\* C3: abort may be called in every writer state, also while a write is
\* suspended in State::Init and while a close is suspended in State::Close:
\* abort then proceeds and never ends in an unreachable-state failure.
C3_AbortProceeds ==
    call.op = "abort" => panicked # "unreachable"

\* C4: a failed initiate_part is retryable: once write has returned that
\* error the writer is in State::Idle, without session and with the first
\* chunk still buffered (not in State::Init with a finished future).
C4_InitFailureRetryable ==
    (Returned("write", "err") /\ upload_id = None) =>
        (state = Idle /\ cache # None)

\* C5: under every interleaving of write, close and abort calls, whenever
\* complete_part is called its parts are exactly the part numbers
\* 0 .. next_part_number-1, ascending, without gap or duplicate.
C5_CompleteGapless ==
    (state.kind = "Close" /\ state.op = "complete_part") =>
        PartNumbers(state.args.parts) = Iota(next_part_number)

\* C6: a writer built with concurrency parameter n never holds more than
\* max(1, n) tasks in its queue, across push_back on write, push_back of the
\* final chunk on close and push_front on retry.
C6_QueueBounded ==
    Len(futures) <= (IF concurrent >= 1 THEN concurrent ELSE 1)

\* C6 witness: capacity two, the queue is full right after close pushed the
\* final chunk, found the head task failed and pushed it to the front again
C6_Witness ==
    /\ concurrent = 2 /\ Len(futures) = 2
    /\ Returned("close", "err") /\ state.kind = "Idle"
    /\ futures[2].part_number = next_part_number - 1

\* the one-write-then-close execution: one write returned Ok, close follows
OneWriteThenClose == nwrites = 1 /\ call.op = "close"

\* C7: oneshot path: one write of size S followed by close (repeated until
\* Ok) calls write_once with size S and the buffered chunk as body, and calls
\* neither initiate_part nor write_part nor complete_part.
C7_Oneshot ==
    /\ (nwrites = 1 /\ Returned("write", "ok") /\ upload_id = None) =>
           (cache = Some(call.bs) /\ total_size = Len(call.bs))
    /\ OneWriteThenClose =>
           /\ backend.initiate_part = 0
           /\ backend.write_part = 0
           /\ backend.complete_part = 0
           /\ state.kind = "Close" =>
                  /\ state.op = "write_once"
                  /\ state.args.size = total_size
                  /\ state.args.body = cache
                  /\ cache # None
           /\ call.status = "ok" =>
                  /\ backend.write_once >= 1
                  /\ backend.last_once.size = total_size
                  /\ backend.last_once.body # EmptyBody
                  /\ Len(Unwrap(backend.last_once.body)) = total_size
                  /\ backend.length = total_size

\* C7 witness: one write of two bytes, close returned Ok at its second
\* attempt, after write_once failed once
C7_Witness ==
    /\ OneWriteThenClose /\ call.status = "ok"
    /\ total_size = 2 /\ backend.write_once = 2
    /\ backend.last_once.body = ChunkedBody(<<2, 3>>)

\* the part numbers of the queued tasks, head first
QueuedNumbers(q) == [i \in 1..Len(q) |-> q[i].part_number]

\* this step is a write or close call returning the error of a failed part
\* task (the call returns Err in State::Idle with a session)
PartRetryStep(op) ==
    /\ Running(op) /\ state.kind = "Idle" /\ upload_id # None
    /\ call'.status = "err"

\* the head task of q was taken and failed, and q2 holds its replacement at
\* the head: same part number, same chunk, same session, running again
ReplacedAtHead(q, q2) ==
    /\ Len(q) > 0 /\ Len(q2) = Len(q) /\ q[1].res = "err"
    /\ q2[1] = [q[1] EXCEPT !.res = "pending"]
    /\ Tail(q2) = Tail(q)

\* C8: retry preserves number and position: when the write_part task of part
\* k fails, its replacement carries part number k and the same chunk and is
\* put at the head of the queue, and no part number is spent on the retry
\* (next_part_number only moves with a newly queued final chunk); so part k
\* is appended to parts at index k, before every larger part number.
C8_RetryInPlace ==
    /\ [][ (PartRetryStep("write") \/ PartRetryStep("close")) =>
              /\ ReplacedAtHead(
                     IF call.op = "close" THEN QueueAfterFinal ELSE futures,
                     futures')
              /\ next_part_number' - next_part_number
                     = Len(futures') - Len(futures)
              /\ parts' = parts ]_vars
    /\ [](PartNumbers(parts) = Iota(Len(parts)))

\* C8 witness: the backend saw part 1 succeed before part 0, whose first
\* attempt failed, and parts holds part 0 then part 1
C8_Witness ==
    /\ backend.write_part > Len(backend.part_numbers)
    /\ Len(backend.part_numbers) >= 2
    /\ backend.part_numbers[1] = 1 /\ backend.part_numbers[2] = 0
    /\ Len(parts) >= 2 /\ parts[1].part_number = 0

\* C9: when complete_part fails, close returns the error with upload id and
\* parts unchanged, and the next close calls complete_part again with the
\* same upload id and parts, with no write_part, initiate_part or write_once
\* call in between.
C9_CompleteRetry ==
    /\ [][ (Running("close") /\ state.kind = "Close"
            /\ state.op = "complete_part" /\ state.res = "err"
            /\ call' # call) =>
              /\ call'.status = "err" /\ state' = Idle
              /\ upload_id' = upload_id /\ parts' = parts
              /\ CloseCanComplete' ]_vars
    /\ [][ CompleteCalled =>
              /\ backend'.last_complete = backend.last_complete
              /\ backend'.write_part = backend.write_part
              /\ backend'.initiate_part = backend.initiate_part
              /\ backend'.write_once = backend.write_once
              /\ upload_id' = upload_id /\ parts' = parts ]_vars

\* C9 witness: complete_part failed, close was repeated and called it again
C9_Witness ==
    /\ backend.complete_part = 2 /\ call.op = "close"
    /\ state.kind = "Close" /\ state.op = "complete_part"
    /\ Len(state.args.parts) >= 2

\* C10: a write with a session that finds the queue full and the head task
\* failed returns the error without accepting the bytes: buffered chunk,
\* next_part_number and parts are unchanged and the queue holds the same part
\* numbers in the same order, the failed part submitted again at the head.
C10_WriteErrorKeepsAll ==
    [][ PartRetryStep("write") =>
           /\ cache' = cache
           /\ next_part_number' = next_part_number
           /\ parts' = parts
           /\ QueuedNumbers(futures') = QueuedNumbers(futures)
           /\ futures'[1].res = "pending"
           /\ futures'[1].bytes = futures[1].bytes
           /\ nwrites' = nwrites /\ total_size' = total_size ]_vars

\* C10 witness: capacity two, a write found the queue full and the head
\* failed; it returned the error and the two tasks are still queued
C10_Witness ==
    /\ Returned("write", "err") /\ state.kind = "Idle" /\ upload_id # None
    /\ Len(futures) = 2 /\ cache # None
    /\ futures[1].res = "pending"

\* C11: after a close has returned Ok the writer is in a terminal success
\* state: complete_part (write_once on the oneshot path) has succeeded
\* exactly once, and a further close calls neither of them again.
C11_CloseIsTerminal ==
    /\ [](Returned("close", "ok") => backend.finished = 1)
    /\ [][ (backend.finished >= 1 /\ state.kind = "Idle") =>
              /\ backend'.complete_part = backend.complete_part
              /\ backend'.write_once = backend.write_once ]_vars

\* C12: over any sequence of write, close and abort calls initiate_part is
\* called at most once, and only by a write call that finds no session and
\* the buffer slot occupied (not by the first write, by close or by abort).
C12_InitiateOnce ==
    /\ [](backend.initiate_part <= 1)
    /\ [][ backend'.initiate_part # backend.initiate_part =>
              /\ Running("write") /\ state.kind = "Idle"
              /\ upload_id = None /\ cache # None /\ nwrites >= 1
              /\ backend'.initiate_part = backend.initiate_part + 1 ]_vars

\* C12 witness: a session exists after a dropped write, an abort and a
\* further write, and initiate_part was called once
C12_Witness ==
    /\ backend.initiate_part = 1 /\ upload_id # None
    /\ backend.abort_part >= 1 /\ Returned("write", "ok") /\ ncalls >= 4

\* C13: abort with a session first empties the queue, without waiting for
\* any task in flight, only then calls abort_part with the session's upload
\* id, once for that abort call, and returns its result, Ok or Err.
C13_AbortClearsThenCalls ==
    /\ [][ (Running("abort") /\ state.kind = "Idle" /\ upload_id # None
            /\ state' # state) =>
              /\ futures' = <<>>
              /\ state'.kind = "Abort" /\ state'.op = "abort_part"
              /\ state'.args.upload_id = Unwrap(upload_id)
              /\ state'.res = "pending"
              /\ backend'.abort_part = backend.abort_part + 1
              /\ call' = call ]_vars
    /\ [][ (Running("abort") /\ state.kind = "Abort") =>
              /\ backend'.abort_part = backend.abort_part
              /\ futures' = futures
              /\ call'.status \in {"ok", "err"} =>
                     (call'.status = state.res /\ state' = Idle) ]_vars
    /\ []((call.op = "abort" /\ call.status \in {"ok", "err"}
           /\ upload_id # None) =>
              (state = Idle /\ futures = <<>> /\ backend.abort_part >= 1))

\* C13 witness: abort_part is pending for an abort that discarded a queued
\* task no write_part call had answered yet
C13_Witness ==
    /\ Running("abort") /\ state.kind = "Abort" /\ state.res = "pending"
    /\ futures = <<>> /\ next_part_number >= 1
    /\ backend.write_part = 0 /\ backend.abort_part = 1

\* C14: abort on a writer without session (before any write, or after one
\* buffered write) returns Ok at once, calls nothing on the backend, and
\* leaves state, buffered chunk, parts, queue and next_part_number unchanged.
C14_AbortNoSessionNoop ==
    [][ (Running("abort") /\ upload_id = None /\ state.kind = "Idle"
         /\ nwrites <= 1) =>
           /\ call'.status = "ok"
           /\ writer' = writer
           /\ backend' = backend ]_vars

\* C14 witness: abort returned Ok with one write buffered and no session
C14_Witness ==
    /\ Returned("abort", "ok") /\ upload_id = None
    /\ cache # None /\ nwrites = 1 /\ backend = Backend0

\* C15: close on a writer that received no write calls write_once with size
\* 0 and an empty body, and calls neither initiate_part nor write_part nor
\* complete_part.
C15_ZeroWriteClose ==
    (nwrites = 0 /\ call.op \in {"none", "close", "abort"}) =>
        /\ backend.initiate_part = 0
        /\ backend.write_part = 0
        /\ backend.complete_part = 0
        /\ state.kind = "Close" =>
               /\ state.op = "write_once"
               /\ state.args.size = 0 /\ state.args.body = EmptyBody
        /\ backend.write_once > 0 =>
               /\ backend.last_once.size = 0
               /\ backend.last_once.body = EmptyBody
        /\ Returned("close", "ok") =>
               (backend.write_once >= 1 /\ backend.length = 0)

\* C15 witness: close with no write before it returned Ok
C15_Witness ==
    /\ nwrites = 0 /\ Returned("close", "ok")
    /\ backend.write_once = 1 /\ backend.last_once.body = EmptyBody

\* every number of 0 .. n-1 occurs exactly once in the sequence ns
EachOnce(ns, n) ==
    /\ Len(ns) = n
    /\ \A k \in 0..(n - 1) : Cardinality({i \in 1..Len(ns) : ns[i] = k}) = 1

\* C16: in the write-then-close scenario with failing write_part calls and
\* repeated calls (no abort), when complete_part is called the length of its
\* parts is the number of write_part calls that succeeded on the backend:
\* every part number succeeded exactly once, none twice, none was dropped.
C16_PartsMatchBackend ==
    (state.kind = "Close" /\ state.op = "complete_part") =>
        /\ Len(state.args.parts) = Len(backend.part_numbers)
        /\ EachOnce(backend.part_numbers, next_part_number)
        /\ next_part_number = nwrites

\* C16 witness: complete_part is called with three parts after four
\* write_part calls, one of which failed, part 1 answered before part 0
C16_Witness ==
    /\ state.kind = "Close" /\ state.op = "complete_part"
    /\ Len(state.args.parts) = 3 /\ backend.write_part = 4
    /\ backend.part_numbers[1] = 1

\* C17: on the oneshot path a failed write_once makes close return the error
\* with the chunk still buffered and the writer in Idle, so that the next
\* close calls write_once with the same size and body; the buffer slot is
\* cleared only after write_once succeeded.
C17_OneshotRetry ==
    /\ [][ (Running("close") /\ state.kind = "Close"
            /\ state.op = "write_once" /\ state.res = "err"
            /\ call' # call) =>
              /\ call'.status = "err" /\ state' = Idle
              /\ cache' = cache /\ upload_id' = None ]_vars
    /\ [][ (backend.write_once >= 1
            /\ backend'.write_once # backend.write_once) =>
              backend'.last_once = backend.last_once ]_vars
    /\ [][ (upload_id = None /\ cache # None /\ cache' # cache) =>
              (state.kind = "Close" /\ state.op = "write_once"
               /\ state.res = "ok" /\ cache' = None) ]_vars

\* C17 witness: write_once failed once, close was repeated and write_once is
\* pending again with the one byte chunk still buffered
C17_Witness ==
    /\ Running("close") /\ state.kind = "Close" /\ state.res = "pending"
    /\ state.op = "write_once" /\ backend.write_once = 2
    /\ cache = Some(<<1>>) /\ state.args.body = ChunkedBody(<<1>>)

\* C18: backpressure: with a session and the queue holding C tasks, a write
\* does not return Ok (the buffered chunk is not dispatched, no bytes are
\* accepted) before the result of the head task, the oldest one, was taken
\* from the queue, even when tasks behind it have finished.
C18_Backpressure ==
    /\ [][ (Running("write") /\ state.kind = "Idle" /\ upload_id # None
            /\ Len(futures) >= Capacity) =>
              /\ call'.status # "ok"
              /\ cache' = cache /\ nwrites' = nwrites
              /\ next_part_number' = next_part_number
              /\ QueuedNumbers(futures') # QueuedNumbers(futures) =>
                     (HeadReady(futures) /\ futures' = Tail(futures)) ]_vars
    /\ [][ (Running("write") /\ upload_id # None
            /\ nwrites' = nwrites + 1) =>
              (Len(futures) < Capacity /\ Len(futures') = Len(futures) + 1)
       ]_vars

\* C18 witness: capacity two, a write is suspended on a full queue whose
\* head task is still running while the task behind it has succeeded
C18_Witness ==
    /\ Running("write") /\ state.kind = "Idle" /\ upload_id # None
    /\ Len(futures) = 2 /\ Capacity = 2
    /\ futures[1].res = "pending" /\ futures[2].res = "ok"

\* C19: as long as no abort discarded tasks, in every state with a session
\* the part numbers of parts followed by those of the queue, head to tail,
\* are 0, 1, ..., next_part_number-1: every allocated part number is either
\* completed or queued, once, in submission order.
C19_PartsThenQueue ==
    (upload_id # None /\ backend.abort_part = 0) =>
        PartNumbers(parts) \o QueuedNumbers(futures) = Iota(next_part_number)

\* C19 witness: part 0 is completed, parts 1 and 2 are queued, part 1 as the
\* replacement of a task that failed during close
C19_Witness ==
    /\ upload_id # None /\ backend.abort_part = 0
    /\ Len(parts) = 1 /\ Len(futures) = 2
    /\ backend.write_part > Len(backend.part_numbers)
    /\ futures[1].res = "pending" /\ Returned("close", "err")

\* C20: in the write-then-close scenario, with finitely many failing backend
\* calls and every failed call repeated, the caller ends with a close that
\* returned Ok, and no state on the way is a deadlock: every reachable state
\* is that end or has a step to take.
C20_NoDeadlock ==
    Returned("close", "ok") \/ ENABLED NextSeq

\* a write step that goes through fill_cache (l.239, l.263): the only way a
\* write returns Ok
FillCacheEntered == Running("write") /\ call'.status = "ok"

\* the chunk in the slot at the start of the step is, after the step, the
\* task at the tail of the queue, under the part number allocated for it
ChunkMovedToQueue ==
    /\ Len(futures') = Len(futures) + 1
    /\ futures'[Len(futures')].bytes = Unwrap(cache)
    /\ futures'[Len(futures')].part_number = next_part_number

\* C21: for a caller that only writes (failed writes repeated, no close and
\* no abort), the two assertions of the write path never fail: a write that
\* finds a session and a free queue slot finds the buffer slot occupied, so
\* expect("pending write must exist") does not panic; and fill_cache runs
\* only on a slot that is empty or was emptied into the queue in the same
\* step, so no chunk is overwritten before it was dispatched, and the slot
\* changes in no other way.
C21_AssertionsHold ==
    /\ [](~ENABLED WriteNoPending)
    /\ [][ FillCacheEntered =>
              /\ cache = None \/ ChunkMovedToQueue
              /\ cache' = Some(call.bs) ]_vars
    /\ [][ cache' # cache => FillCacheEntered ]_vars

\* C21 witness: after a failed write was repeated, a write found the session
\* and a free slot of a queue of capacity two, dispatched the buffered chunk
\* as part 1 and buffered its own two bytes
C21_Witness ==
    /\ Returned("write", "ok") /\ upload_id # None /\ failures > 0
    /\ Capacity = 2 /\ Len(futures) = 2 /\ next_part_number = 2
    /\ futures[2].part_number = 1 /\ futures[2].bytes = <<1>>
    /\ cache = Some(<<2, 3>>) /\ nwrites = 3
====
